---- MODULE Spec2Model ----
(***************************************************************************)
(* Model of lib/modules/__init__.py of my-avbroot-setup: the CIL ueventd   *)
(* persistence patcher, the seapp_contexts appender, the zip payload       *)
(* extractor and the host architecture resolver.                           *)
(*                                                                         *)
(* Text is modelled as a sequence of tokens.  The marker literal           *)
(* 'my-avbroot-setup --compatible-sepolicy' is split into two tokens so    *)
(* that the substring test of the patcher has partial matches to reject.   *)
(* Architecture strings are sequences of characters, paths are sequences   *)
(* of path components.                                                     *)
(***************************************************************************)
EXTENDS Integers, Sequences, FiniteSets, TLC

VARIABLES
    requirements,        \* ModuleRequirements of the module being injected
    ext_fs,              \* keys of the ext_fs handle map given to the call
    cil,                 \* partition -> the file <p>/etc/selinux/<p>_sepolicy.cil
    init_cil,            \* cil before the tool ever ran
    compatible_sepolicy, \* argument of the last call
    pre_cil,             \* cil at the start of the last patcher call
    first_cil,           \* cil at the return of the first patcher call
    same_flag,           \* all patcher calls so far used one compatible_sepolicy
    writes,              \* partitions whose file the last patcher call wrote
    seapp,               \* partition -> its *_seapp_contexts file
    init_seapp,          \* seapp before the tool ever ran
    pre_seapp,           \* seapp at the start of the last append call
    seapp_contexts_name, \* argument of the last append call
    appended,            \* fragments of the append calls that returned, in order
    write_order,         \* files the last append call wrote, in order
    arch,                \* platform.machine() of the host
    abi,                 \* value returned by host_android_abi
    tree,                \* destination filesystem: path -> directory or file
    pre_tree,            \* tree at the start of the last zip_extract call
    extract_args,        \* arguments of the last zip_extract call
    calls,               \* number of calls made so far
    result               \* how the last call ended

cilVars == <<requirements, cil, init_cil, pre_cil, first_cil, same_flag, writes>>
seappVars == <<seapp, init_seapp, pre_seapp, seapp_contexts_name, appended,
               write_order>>
vars == <<requirements, ext_fs, cil, init_cil, compatible_sepolicy, pre_cil, first_cil,
          same_flag, writes, seapp, init_seapp, pre_seapp, seapp_contexts_name,
          appended, write_order, arch, abi, tree, pre_tree, extract_args,
          calls, result>>
abiVars == <<arch, abi>>
zipVars == <<tree, pre_tree, extract_args>>

\* ---------------------------------------------------------------- bounds
MaxLen == 2
MaxCalls == 3
MaxSuffix == 2
MaxExtracts == 2

\* ------------------------------------------------------------- text model
\* a path of a partition tree: the file's text, or no file at that path
NoFile == [exists |-> FALSE, text |-> <<>>]
File(t) == [exists |-> TRUE, text |-> t]
NoCall == "<no call>"
Returned == "returned"
Raised == "raised"

NL == "\n"
AddedBy == "; Added by "
MarkerHead == "my-avbroot-setup"
MarkerTail == " --compatible-sepolicy"
AllowComment == "; Allow ueventd to access vendor firmware files during boot"
FixesComment == "; Fixes bootloop from IPA/firmware loading failures during Custota updates"
AllowFile == "(allow ueventd vendor_firmware_file (file (read open getattr)))"
AllowDir == "(allow ueventd vendor_firmware_file (dir (read open search)))"
OtherRule == "(typeattribute vendor_firmware_file)"

\* the literal tested by `in existing_content`
MARKER == <<MarkerHead, MarkerTail>>

ueventd_firmware_rules ==
    <<NL, AddedBy, MarkerHead, MarkerTail, NL,
      AllowComment, NL,
      FixesComment, NL,
      AllowFile, NL,
      AllowDir, NL>>

\* Python's `sub in s` on str
Contains(s, sub) ==
    \E i \in 1..(Len(s) - Len(sub) + 1) : SubSeq(s, i, i + Len(sub) - 1) = sub

SeqsUpTo(S, n) == UNION {[1..k -> S] : k \in 0..n}

CilTokens == {MarkerHead, MarkerTail, OtherRule}

\* contents a CIL file can have before the tool runs: short texts, texts
\* already carrying the block, and texts carrying the allow rules unmarked
CilContents ==
    SeqsUpTo(CilTokens, MaxLen)
      \cup {s \o ueventd_firmware_rules : s \in SeqsUpTo(CilTokens, 1)}
      \cup {<<AllowFile, NL, AllowDir, NL>>, <<AllowFile, NL>>}

CilPartitions == {"vendor", "odm"}

ExtImagesChoices == {{"system"}, {"system", "vendor"}, {"system", "vendor", "odm"}}

ModuleRequirements(ext) ==
    [boot_images |-> {}, ext_images |-> ext, selinux_patching |-> TRUE]

\* ----------------------------------------------- patch_vendor_cil_for_ueventd
\* variant: the vendor file is appended to without the duplicate check
PatchVendorCil_NoCheck(fs, f) ==
    IF "vendor" \in fs /\ f.exists
    THEN [file |-> File(f.text \o ueventd_firmware_rules), wrote |-> TRUE]
    ELSE [file |-> f, wrote |-> FALSE]

\* variant: the duplicate check looks for 'my-avbroot-setup' only
PatchVendorCil_ShortMarker(fs, f) ==
    IF "vendor" \in fs /\ f.exists /\ ~Contains(f.text, <<MarkerHead>>)
    THEN [file |-> File(f.text \o ueventd_firmware_rules), wrote |-> TRUE]
    ELSE [file |-> f, wrote |-> FALSE]

\* the `if 'vendor' in ext_fs:` statement; yields the file and whether
\* f.write ran
PatchVendorCil(fs, f) ==
    IF "vendor" \in fs
    THEN IF f.exists
         THEN IF Contains(f.text, MARKER)
              THEN [file |-> f, wrote |-> FALSE]
              ELSE [file |-> File(f.text \o ueventd_firmware_rules), wrote |-> TRUE]
         ELSE [file |-> f, wrote |-> FALSE]
    ELSE [file |-> f, wrote |-> FALSE]

\* variant: the odm file is opened with 'w' instead of 'a'
PatchOdmCil_Truncate(fs, compat, f) ==
    IF compat /\ "odm" \in fs /\ f.exists /\ ~Contains(f.text, MARKER)
    THEN [file |-> File(ueventd_firmware_rules), wrote |-> TRUE]
    ELSE [file |-> f, wrote |-> FALSE]

\* variant: the odm statement is guarded by `'odm' in ext_fs` alone
PatchOdmCil_IgnoresFlag(fs, compat, f) ==
    IF "odm" \in fs /\ f.exists /\ ~Contains(f.text, MARKER)
    THEN [file |-> File(f.text \o ueventd_firmware_rules), wrote |-> TRUE]
    ELSE [file |-> f, wrote |-> FALSE]

\* the `if compatible_sepolicy and 'odm' in ext_fs:` statement
PatchOdmCil(fs, compat, f) ==
    IF compat /\ "odm" \in fs
    THEN IF f.exists
         THEN IF Contains(f.text, MARKER)
              THEN [file |-> f, wrote |-> FALSE]
              ELSE [file |-> File(f.text \o ueventd_firmware_rules), wrote |-> TRUE]
         ELSE [file |-> f, wrote |-> FALSE]
    ELSE [file |-> f, wrote |-> FALSE]

\* variant: a missing vendor_sepolicy.cil ends the function before odm
PatchOutcome_EarlyReturn(fs, compat, files) ==
    LET v == PatchVendorCil(fs, files["vendor"])
        o == IF "vendor" \in fs /\ ~files["vendor"].exists
             THEN [file |-> files["odm"], wrote |-> FALSE]
             ELSE PatchOdmCil(fs, compat, files["odm"])
    IN  [cil    |-> [vendor |-> v.file, odm |-> o.file],
         writes |-> {p \in CilPartitions :
                        IF p = "vendor" THEN v.wrote ELSE o.wrote},
         result |-> Returned]

\* the whole function: the vendor statement, then the odm statement; no
\* path of it raises
PatchOutcome(fs, compat, files) ==
    LET v == PatchVendorCil(fs, files["vendor"])
        o == PatchOdmCil(fs, compat, files["odm"])
    IN  [cil    |-> [vendor |-> v.file, odm |-> o.file],
         writes |-> {p \in CilPartitions :
                        IF p = "vendor" THEN v.wrote ELSE o.wrote},
         result |-> Returned]

\* ------------------------------------------------------ append_seapp_contexts
SeappPartitions == {"system", "vendor", "odm"}

SeappLine == "user=_app seinfo=platform"
Fragment == "foo:bar:baz"

\* the entries of the module zip, by name
SeappZip ==
    {[name |-> "seapp_contexts", data |-> <<Fragment>>],
     [name |-> "seapp_contexts.two", data |-> <<SeappLine, NL, Fragment>>],
     [name |-> "seapp_contexts.empty", data |-> <<>>]}

SeappNames == {e.name : e \in SeappZip} \cup {"seapp_contexts.absent"}

\* ZipFile.open(name, 'r'): the entry's bytes, or KeyError
ZipOpen(zip, name) ==
    IF \E e \in zip : e.name = name
    THEN [ok |-> TRUE, data |-> (CHOOSE e \in zip : e.name = name).data]
    ELSE [ok |-> FALSE, data |-> <<>>]

\* ExtFs.open(path, 'ab') followed by writes of `data`
ExtFsAppend(f, data) == File(f.text \o data)

\* one turn of `for partition_name in ['vendor', 'odm']`
AppendPartition(p, fs, f, data) ==
    IF p \notin fs
    THEN [file |-> f, wrote |-> <<>>]
    ELSE IF f.exists
         THEN [file |-> ExtFsAppend(f, data \o <<NL>>), wrote |-> <<p>>]
         ELSE [file |-> f, wrote |-> <<>>]

\* variant: the plat append is skipped when the file already holds the
\* fragment
AppendOutcome_Dedup(zip, name, fs, compat, files) ==
    IF "system" \notin fs \/ ~ZipOpen(zip, name).ok
    THEN [seapp |-> files, order |-> <<>>, result |-> Raised]
    ELSE LET data == ZipOpen(zip, name).data
             plat == IF Contains(files["system"].text, data \o <<NL>>)
                     THEN files["system"]
                     ELSE ExtFsAppend(files["system"], data \o <<NL>>)
             v == IF compat THEN AppendPartition("vendor", fs, files["vendor"], data)
                            ELSE [file |-> files["vendor"], wrote |-> <<>>]
             o == IF compat THEN AppendPartition("odm", fs, files["odm"], data)
                            ELSE [file |-> files["odm"], wrote |-> <<>>]
         IN  [seapp  |-> [system |-> plat, vendor |-> v.file, odm |-> o.file],
              order  |-> <<"system">> \o v.wrote \o o.wrote,
              result |-> Returned]

\* variant: the vendor/odm loop runs without the compatible_sepolicy test
AppendOutcome_AlwaysMirror(zip, name, fs, compat, files) ==
    IF "system" \notin fs \/ ~ZipOpen(zip, name).ok
    THEN [seapp |-> files, order |-> <<>>, result |-> Raised]
    ELSE LET data == ZipOpen(zip, name).data
             plat == ExtFsAppend(files["system"], data \o <<NL>>)
             v == AppendPartition("vendor", fs, files["vendor"], data)
             o == AppendPartition("odm", fs, files["odm"], data)
         IN  [seapp  |-> [system |-> plat, vendor |-> v.file, odm |-> o.file],
              order  |-> <<"system">> \o v.wrote \o o.wrote,
              result |-> Returned]

\* the whole function: ext_fs['system'] (KeyError without the handle), the
\* plat append (zip.open is entered first and raises KeyError for a missing
\* entry, before the file is opened), then the vendor/odm loop
AppendOutcome(zip, name, fs, compat, files) ==
    IF "system" \notin fs
    THEN [seapp |-> files, order |-> <<>>, result |-> Raised]
    ELSE IF ~ZipOpen(zip, name).ok
    THEN [seapp |-> files, order |-> <<>>, result |-> Raised]
    ELSE LET data == ZipOpen(zip, name).data
             plat == ExtFsAppend(files["system"], data \o <<NL>>)
             v == IF compat THEN AppendPartition("vendor", fs, files["vendor"], data)
                            ELSE [file |-> files["vendor"], wrote |-> <<>>]
             o == IF compat THEN AppendPartition("odm", fs, files["odm"], data)
                            ELSE [file |-> files["odm"], wrote |-> <<>>]
         IN  [seapp  |-> [system |-> plat, vendor |-> v.file, odm |-> o.file],
              order  |-> <<"system">> \o v.wrote \o o.wrote,
              result |-> Returned]

\* ----------------------------------------------------------- host_android_abi
\* machine strings, as sequences of characters
S_x86_64 == <<"x", "8", "6", "_", "6", "4">>
S_i386 == <<"i", "3", "8", "6">>
S_i486 == <<"i", "4", "8", "6">>
S_i586 == <<"i", "5", "8", "6">>
S_i686 == <<"i", "6", "8", "6">>
S_aarch64 == <<"a", "a", "r", "c", "h", "6", "4">>
S_armv7 == <<"a", "r", "m", "v", "7">>
S_armv == <<"a", "r", "m", "v">>
S_mips == <<"m", "i", "p", "s">>
S_i38 == <<"i", "3", "8">>
S_x86 == <<"x", "8", "6">>

NoAbi == "<no value>"

\* str.startswith
StartsWith(s, prefix) ==
    Len(s) >= Len(prefix) /\ SubSeq(s, 1, Len(prefix)) = prefix

\* machine strings the host can report: the documented ones, near misses,
\* and each of them followed by a short suffix
ArchStrings ==
    {p \o x : p \in {S_x86_64, S_i386, S_i486, S_i586, S_i686, S_aarch64,
                      S_armv7, S_armv, S_mips, S_i38, S_x86, <<>>},
              x \in SeqsUpTo({"l", "6", "7"}, MaxSuffix)}

\* variant: armv7 is compared with == instead of startswith
HostAbi_ExactArmv7(a) ==
    IF a = S_x86_64 THEN [raised |-> FALSE, value |-> "x86_64"]
    ELSE IF a = S_i386 \/ a = S_i486 \/ a = S_i586 \/ a = S_i686
    THEN [raised |-> FALSE, value |-> "x86"]
    ELSE IF a = S_aarch64 THEN [raised |-> FALSE, value |-> "arm64-v8a"]
    ELSE IF a = S_armv7 THEN [raised |-> FALSE, value |-> "armeabi-v7a"]
    ELSE [raised |-> TRUE, value |-> NoAbi]

\* the if/elif chain; `return arch` of the first branch returns "x86_64"
HostAbi(a) ==
    IF a = S_x86_64 THEN [raised |-> FALSE, value |-> "x86_64"]
    ELSE IF a = S_i386 \/ a = S_i486 \/ a = S_i586 \/ a = S_i686
    THEN [raised |-> FALSE, value |-> "x86"]
    ELSE IF a = S_aarch64 THEN [raised |-> FALSE, value |-> "arm64-v8a"]
    ELSE IF StartsWith(a, S_armv7) THEN [raised |-> FALSE, value |-> "armeabi-v7a"]
    ELSE [raised |-> TRUE, value |-> NoAbi]

\* ------------------------------------------------------------------ zip_extract
\* Entry names and output arguments are sequences of tokens: a path
\* component or the separator "/".  Paths are sequences of components.
Slash == "/"

NoneOutput == [given |-> FALSE, value |-> <<>>]
Output(t) == [given |-> TRUE, value |-> t]

\* PurePosixPath(str): the components, without separators and "." parts
PurePosixPath(t) == SelectSeq(t, LAMBDA c : c # Slash /\ c # ".")

\* PurePosixPath.parent; the parent of '.' is '.'
Parent(path) == IF path = <<>> THEN <<>> ELSE SubSeq(path, 1, Len(path) - 1)

ExtractZip ==
    {[name |-> <<"files", Slash, "x.txt">>, data |-> <<"x-bytes">>],
     [name |-> <<"files", Slash, "sub", Slash, "y.bin">>, data |-> <<"y-bytes", "y-more">>],
     [name |-> <<"z.txt">>, data |-> <<>>]}

ExtractNames == {e.name : e \in ExtractZip} \cup {<<"files", Slash, "absent">>}

ExtractOutputs ==
    {NoneOutput, Output(<<>>), Output(<<"out", Slash, "x.txt">>),
     Output(<<"files">>), Output(<<"files", Slash, "sub">>)}

FileModes == {"0o644", "0o755"}
ParentModes == {"0o755", "0o700"}

Dir(m) == [kind |-> "dir", mode |-> m, data |-> <<>>]
RegularFile(m, d) == [kind |-> "file", mode |-> m, data |-> d]

IsDir(t, path) == path = <<>> \/ (path \in DOMAIN t /\ t[path].kind = "dir")
IsFile(t, path) == path \in DOMAIN t /\ t[path].kind = "file"

Prefixes(path) == {SubSeq(path, 1, k) : k \in 1..Len(path)}

\* ExtFs.mkdir(path, mode=m, parents=True, exist_ok=True): every missing
\* directory down to `path` is created under mode m, directories that exist
\* are kept as they are, a file in the way is an error
ExtFsMkdir(t, path, m) ==
    IF \E q \in Prefixes(path) : IsFile(t, q)
    THEN [ok |-> FALSE, tree |-> t]
    ELSE [ok |-> TRUE,
          tree |-> [q \in DOMAIN t \cup Prefixes(path) |->
                       IF q \in DOMAIN t THEN t[q] ELSE Dir(m)]]

\* ExtFs.open(path, 'wb', mode=m): a new empty file under mode m at `path`,
\* replacing a file that was there; a directory at `path` is an error
ExtFsOpenWrite(t, path, m) ==
    IF IsDir(t, path)
    THEN [ok |-> FALSE, tree |-> t]
    ELSE [ok |-> TRUE,
          tree |-> [q \in DOMAIN t \cup {path} |->
                       IF q = path THEN RegularFile(m, <<>>) ELSE t[q]]]

\* shutil.copyfileobj into the stream opened on `path`
CopyInto(t, path, d) == [t EXCEPT ![path].data = d]

\* variant: the output argument is ignored
DestPath_IgnoresOutput(name, output) == PurePosixPath(name)

\* PurePosixPath(output or name): None and '' are both falsy
DestPath(name, output) ==
    IF output.given /\ output.value # <<>>
    THEN PurePosixPath(output.value)
    ELSE PurePosixPath(name)

\* the whole function: mkdir of the parent, open of the destination, then
\* zip.open (KeyError for a missing entry, after the file was created) and
\* the copy
ZipExtract(zip, name, t, mode, parent_mode, output) ==
    LET path == DestPath(name, output)
        mk == ExtFsMkdir(t, Parent(path), parent_mode)
        op == ExtFsOpenWrite(mk.tree, path, mode)
        entry == ZipOpen(zip, name)
    IN  IF ~mk.ok THEN [tree |-> t, result |-> Raised]
        ELSE IF ~op.ok THEN [tree |-> mk.tree, result |-> Raised]
        ELSE IF ~entry.ok THEN [tree |-> op.tree, result |-> Raised]
        ELSE [tree |-> CopyInto(op.tree, path, entry.data), result |-> Returned]

EmptyTree == [q \in {} |-> Dir("0o755")]

InitialTrees ==
    {EmptyTree,
     [q \in {<<"files">>} |-> Dir("0o700")],
     [q \in {<<"files">>, <<"files", "x.txt">>} |->
         IF q = <<"files">> THEN Dir("0o755") ELSE RegularFile("0o600", <<"old">>)]}

NoExtract ==
    [name |-> <<>>, mode |-> "0o644", parent_mode |-> "0o755", output |-> NoneOutput]

SeappContents == SeqsUpTo({SeappLine}, MaxLen)

\* ------------------------------------------------------- specifications

CilIdle ==
    /\ requirements = ModuleRequirements({"system"})
    /\ cil = [p \in CilPartitions |-> NoFile]
    /\ init_cil = cil
    /\ pre_cil = cil
    /\ first_cil = cil
    /\ same_flag = TRUE
    /\ writes = {}

SeappIdle ==
    /\ seapp = [p \in SeappPartitions |-> NoFile]
    /\ init_seapp = seapp
    /\ pre_seapp = seapp
    /\ seapp_contexts_name = "seapp_contexts"
    /\ appended = <<>>
    /\ write_order = <<>>

AbiIdle ==
    /\ arch = S_x86_64
    /\ abi = NoAbi

ZipIdle ==
    /\ tree = EmptyTree
    /\ pre_tree = tree
    /\ extract_args = NoExtract

InitCil ==
    /\ requirements \in {ModuleRequirements(e) : e \in ExtImagesChoices}
    /\ ext_fs \in {{"system"} \cup s : s \in SUBSET CilPartitions}
    /\ cil \in [CilPartitions -> {File(t) : t \in CilContents} \cup {NoFile}]
    /\ init_cil = cil
    /\ compatible_sepolicy = FALSE
    /\ pre_cil = cil
    /\ first_cil = cil
    /\ same_flag = TRUE
    /\ writes = {}
    /\ calls = 0
    /\ result = NoCall
    /\ SeappIdle
    /\ AbiIdle
    /\ ZipIdle

patch_vendor_cil_for_ueventd ==
    \E compat \in BOOLEAN :
        LET out == PatchOutcome(ext_fs, compat, cil) IN
        /\ calls < MaxCalls
        /\ cil' = out.cil
        /\ writes' = out.writes
        /\ result' = out.result
        /\ pre_cil' = cil
        /\ first_cil' = IF calls = 0 THEN out.cil ELSE first_cil
        /\ same_flag' = (same_flag /\ (calls = 0 \/ compat = compatible_sepolicy))
        /\ compatible_sepolicy' = compat
        /\ calls' = calls + 1
        /\ UNCHANGED <<requirements, ext_fs, init_cil>>
        /\ UNCHANGED <<seappVars, abiVars, zipVars>>

NextCil == patch_vendor_cil_for_ueventd

SpecCil == InitCil /\ [][NextCil]_vars

\* the system image ships plat_seapp_contexts; the vendor and odm files are
\* optional
InitSeapp ==
    /\ ext_fs \in SUBSET SeappPartitions
    /\ seapp \in {f \in [SeappPartitions -> {File(t) : t \in SeappContents} \cup {NoFile}] :
                     f["system"].exists}
    /\ init_seapp = seapp
    /\ pre_seapp = seapp
    /\ seapp_contexts_name = "seapp_contexts"
    /\ appended = <<>>
    /\ write_order = <<>>
    /\ compatible_sepolicy = FALSE
    /\ calls = 0
    /\ result = NoCall
    /\ CilIdle
    /\ AbiIdle
    /\ ZipIdle

append_seapp_contexts ==
    \E name \in SeappNames, compat \in BOOLEAN :
        LET out == AppendOutcome(SeappZip, name, ext_fs, compat, seapp) IN
        /\ calls < MaxCalls
        /\ seapp' = out.seapp
        /\ write_order' = out.order
        /\ result' = out.result
        /\ pre_seapp' = seapp
        /\ seapp_contexts_name' = name
        /\ appended' = IF out.result = Returned
                       THEN Append(appended, ZipOpen(SeappZip, name).data)
                       ELSE appended
        /\ compatible_sepolicy' = compat
        /\ calls' = calls + 1
        /\ UNCHANGED <<ext_fs, init_seapp>>
        /\ UNCHANGED <<cilVars, abiVars, zipVars>>

NextSeapp == append_seapp_contexts

SpecSeapp == InitSeapp /\ [][NextSeapp]_vars

InitAbi ==
    /\ arch \in ArchStrings
    /\ abi = NoAbi
    /\ ext_fs = {}
    /\ compatible_sepolicy = FALSE
    /\ calls = 0
    /\ result = NoCall
    /\ CilIdle
    /\ SeappIdle
    /\ ZipIdle

host_android_abi ==
    /\ calls = 0
    /\ abi' = HostAbi(arch).value
    /\ result' = IF HostAbi(arch).raised THEN Raised ELSE Returned
    /\ calls' = 1
    /\ UNCHANGED <<arch, ext_fs, compatible_sepolicy, cilVars, seappVars, zipVars>>

NextAbi == host_android_abi

SpecAbi == InitAbi /\ [][NextAbi]_vars

InitZip ==
    /\ tree \in InitialTrees
    /\ pre_tree = tree
    /\ extract_args = NoExtract
    /\ ext_fs = {"system"}
    /\ compatible_sepolicy = FALSE
    /\ calls = 0
    /\ result = NoCall
    /\ CilIdle
    /\ SeappIdle
    /\ AbiIdle

zip_extract ==
    \E name \in ExtractNames, mode \in FileModes, parent_mode \in ParentModes,
       output \in ExtractOutputs :
        LET out == ZipExtract(ExtractZip, name, tree, mode, parent_mode, output) IN
        /\ calls < MaxExtracts
        /\ tree' = out.tree
        /\ result' = out.result
        /\ pre_tree' = tree
        /\ extract_args' = [name |-> name, mode |-> mode,
                            parent_mode |-> parent_mode, output |-> output]
        /\ calls' = calls + 1
        /\ UNCHANGED <<ext_fs, compatible_sepolicy, cilVars, seappVars, abiVars>>

NextZip == zip_extract

SpecZip == InitZip /\ [][NextZip]_vars

\* ------------------------------------------------------ properties: CIL
Positions(s, sub) ==
    {i \in 1..(Len(s) - Len(sub) + 1) : SubSeq(s, i, i + Len(sub) - 1) = sub}

Appended(before, after) == SubSeq(after, Len(before) + 1, Len(after))

HasAllowRules(t) == Contains(t, <<AllowFile>>) /\ Contains(t, <<AllowDir>>)

Unmarked(f) == f.exists /\ ~Contains(f.text, MARKER)

\* C1: with one fixed compatible_sepolicy, after the second and every later
\* run each CIL file is identical to what the first run left, and the run
\* wrote nothing.
C1_Idempotent ==
    (calls >= 2 /\ same_flag) => (cil = first_cil /\ writes = {})

C1_Witness ==
    /\ calls >= 2 /\ same_flag /\ compatible_sepolicy
    /\ {"vendor", "odm"} \subseteq ext_fs
    /\ init_cil["vendor"] = File(<<OtherRule>>)
    /\ init_cil["odm"] = File(<<MarkerHead>>)
    /\ cil["vendor"] # init_cil["vendor"]
    /\ cil["odm"] # init_cil["odm"]

\* C2: compatible mode, both handles, both files existing and unmarked: one
\* call leaves each file equal to its prior text followed by one copy of the
\* rule block, whose marker line precedes the two allow rules.
C2_BothPatchedOnce ==
    (/\ calls >= 1
     /\ compatible_sepolicy
     /\ {"vendor", "odm"} \subseteq ext_fs
     /\ \A p \in CilPartitions : Unmarked(pre_cil[p]))
    => \A p \in CilPartitions :
          LET added == Appended(pre_cil[p].text, cil[p].text) IN
          /\ cil[p].exists
          /\ cil[p].text = pre_cil[p].text \o ueventd_firmware_rules
          /\ Cardinality(Positions(added, MARKER)) = 1
          /\ Cardinality(Positions(added, <<AllowFile>>)) = 1
          /\ Cardinality(Positions(added, <<AllowDir>>)) = 1
          /\ \A m \in Positions(added, MARKER) :
                /\ added[m - 1] = AddedBy
                /\ \A a \in Positions(added, <<AllowFile>>)
                             \cup Positions(added, <<AllowDir>>) : m < a

C2_Witness ==
    /\ calls = 1
    /\ compatible_sepolicy
    /\ {"vendor", "odm"} \subseteq ext_fs
    /\ pre_cil["vendor"] = File(<<OtherRule, MarkerHead>>)
    /\ pre_cil["odm"] = File(<<MarkerTail, MarkerHead>>)
    /\ writes = {"vendor", "odm"}

\* C3: with compatible_sepolicy off, odm_sepolicy.cil is left as it was
\* (same existence, same text), whatever happens to the vendor file.
C3_OdmUntouchedWhenOff ==
    (calls >= 1 /\ ~compatible_sepolicy)
    => (cil["odm"] = pre_cil["odm"] /\ "odm" \notin writes)

C3_Witness ==
    /\ calls >= 1 /\ ~compatible_sepolicy
    /\ "odm" \in ext_fs
    /\ Unmarked(pre_cil["odm"])
    /\ "vendor" \in writes

\* C4: a module that declared 'vendor' in ext_images and is given an ext_fs
\* with only 'system' sees the patcher fail instead of returning normally.
C4_MissingVendorHandleFails ==
    (/\ calls >= 1
     /\ "vendor" \in requirements.ext_images
     /\ ext_fs = {"system"})
    => result = Raised

\* C9 as stated: with the vendor handle present and vendor_sepolicy.cil
\* existing, the file holds both allow rules after the call, whatever its
\* prior text was.
C9_RulesAlwaysPresent ==
    (calls >= 1 /\ result = Returned /\ "vendor" \in ext_fs
        /\ pre_cil["vendor"].exists)
    => HasAllowRules(cil["vendor"].text)

\* C9 amended: the file holds both allow rules after the call when its prior
\* text lacked the marker (the block is appended) or already held the rules;
\* a prior text holding the marker is left exactly as it was.
C9_RulesPresentUnlessMarked ==
    (calls >= 1 /\ result = Returned /\ "vendor" \in ext_fs
        /\ pre_cil["vendor"].exists)
    => /\ (~Contains(pre_cil["vendor"].text, MARKER)
              \/ HasAllowRules(pre_cil["vendor"].text))
            => HasAllowRules(cil["vendor"].text)
       /\ Contains(pre_cil["vendor"].text, MARKER)
            => cil["vendor"] = pre_cil["vendor"]

C9_Witness ==
    /\ calls >= 1 /\ "vendor" \in ext_fs
    /\ pre_cil["vendor"] = File(<<MarkerHead>>)
    /\ HasAllowRules(cil["vendor"].text)

\* C10: a partition whose handle is present but whose CIL file is missing
\* makes the call neither fail nor create the file, and the other partition
\* is still patched by its own rule: vendor whatever the flag, odm under
\* compatible_sepolicy even when the vendor file is missing.
C10_MissingFileTolerated ==
    (calls >= 1
        /\ \E p \in CilPartitions : p \in ext_fs /\ ~pre_cil[p].exists)
    => /\ result = Returned
       /\ \A p \in CilPartitions :
             (p \in ext_fs /\ ~pre_cil[p].exists) => ~cil[p].exists
       /\ ("vendor" \in ext_fs /\ Unmarked(pre_cil["vendor"]))
             => cil["vendor"].text
                   = pre_cil["vendor"].text \o ueventd_firmware_rules
       /\ (compatible_sepolicy /\ "odm" \in ext_fs /\ Unmarked(pre_cil["odm"]))
             => cil["odm"].text
                   = pre_cil["odm"].text \o ueventd_firmware_rules

C10_Witness ==
    /\ calls >= 1 /\ compatible_sepolicy
    /\ {"vendor", "odm"} \subseteq ext_fs
    /\ ~pre_cil["vendor"].exists /\ ~cil["vendor"].exists
    /\ "odm" \in writes

\* ---------------------------------------------------- properties: seapp
RECURSIVE Joined(_)
\* each fragment followed by one newline, in call order
Joined(log) ==
    IF log = <<>> THEN <<>>
    ELSE Head(log) \o <<NL>> \o Joined(Tail(log))

RECURSIVE Copies(_, _)
Copies(t, k) == IF k = 0 THEN <<>> ELSE t \o Copies(t, k - 1)

LastFragment == ZipOpen(SeappZip, seapp_contexts_name).data

\* C5: plat_seapp_contexts is its prior content followed by one
\* fragment-plus-newline per successful call, duplicates included: k calls
\* with one fragment F leave P followed by k copies of F + newline.
C5_PlatPureAppend ==
    /\ seapp["system"].exists
    /\ seapp["system"].text = init_seapp["system"].text \o Joined(appended)
    /\ (calls >= 1 /\ result = Returned)
          => seapp["system"].text
                = pre_seapp["system"].text \o LastFragment \o <<NL>>
    /\ \A F \in {e.data : e \in SeappZip} :
          (\A i \in 1..Len(appended) : appended[i] = F)
          => seapp["system"].text
                = init_seapp["system"].text
                     \o Copies(F \o <<NL>>, Len(appended))

C5_Witness ==
    /\ appended = <<(<<Fragment>>), (<<Fragment>>)>>
    /\ init_seapp["system"] = File(<<SeappLine>>)
    /\ seapp["system"].text = <<SeappLine, Fragment, NL, Fragment, NL>>
    /\ compatible_sepolicy

\* C6: in a call that returns, the vendor (odm) seapp file receives the
\* fragment plus newline exactly when compatible_sepolicy is set, the
\* partition has a handle and the file already exists; otherwise it is left
\* as it was and not created.  A missing handle or file never fails the
\* call, plat is always appended, and vendor is written before odm.
C6_MirrorIffEligible ==
    calls >= 1 =>
      /\ ("system" \in ext_fs /\ ZipOpen(SeappZip, seapp_contexts_name).ok)
            => result = Returned
      /\ result = Returned =>
            /\ \A p \in {"vendor", "odm"} :
                  IF compatible_sepolicy /\ p \in ext_fs /\ pre_seapp[p].exists
                  THEN seapp[p] = File(pre_seapp[p].text \o LastFragment \o <<NL>>)
                  ELSE seapp[p] = pre_seapp[p]
            /\ seapp["system"]
                  = File(pre_seapp["system"].text \o LastFragment \o <<NL>>)
            /\ write_order
                  = <<"system">>
                      \o (IF seapp["vendor"] # pre_seapp["vendor"]
                          THEN <<"vendor">> ELSE <<>>)
                      \o (IF seapp["odm"] # pre_seapp["odm"]
                          THEN <<"odm">> ELSE <<>>)

C6_Witness ==
    /\ calls >= 1 /\ result = Returned /\ compatible_sepolicy
    /\ {"vendor", "odm"} \subseteq ext_fs
    /\ ~pre_seapp["vendor"].exists /\ ~seapp["vendor"].exists
    /\ pre_seapp["odm"].exists
    /\ write_order = <<"system", "odm">>

\* ------------------------------------------------------ properties: abi
\* C7: 'x86_64' gives 'x86_64'; 'i386', 'i486', 'i586', 'i686' give 'x86';
\* 'aarch64' gives 'arm64-v8a'; a string starting with 'armv7' gives
\* 'armeabi-v7a'; every other string raises and yields no ABI.
C7_AbiTable ==
    calls >= 1 =>
      LET isArmv7 == Len(arch) >= 5 /\ \A i \in 1..5 : arch[i] = S_armv7[i]
          isX86 == arch \in {S_i386, S_i486, S_i586, S_i686}
      IN  /\ arch = S_x86_64 => (result = Returned /\ abi = "x86_64")
          /\ isX86 => (result = Returned /\ abi = "x86")
          /\ arch = S_aarch64 => (result = Returned /\ abi = "arm64-v8a")
          /\ isArmv7 => (result = Returned /\ abi = "armeabi-v7a")
          /\ ~(arch = S_x86_64 \/ isX86 \/ arch = S_aarch64 \/ isArmv7)
                => (result = Raised /\ abi = NoAbi)

C7_Witness ==
    /\ calls >= 1
    /\ arch = S_armv7 \o <<"l">>
    /\ abi = "armeabi-v7a"

\* ------------------------------------------------------ properties: zip
\* after a successful extraction to `dest`: the file is there under `mode`
\* with the entry's bytes, every ancestor is a directory, the ones that were
\* missing are under parent_mode and the ones that existed are as they were
ExtractedTo(dest) ==
    /\ IsFile(tree, dest)
    /\ tree[dest].mode = extract_args.mode
    /\ tree[dest].data = ZipOpen(ExtractZip, extract_args.name).data
    /\ \A q \in Prefixes(Parent(dest)) :
          /\ q \in DOMAIN tree
          /\ tree[q].kind = "dir"
          /\ IF q \in DOMAIN pre_tree
             THEN tree[q] = pre_tree[q]
             ELSE tree[q].mode = extract_args.parent_mode

\* C8 as stated: on success the destination is `output` whenever an output
\* is given, and the entry name otherwise.
C8_DestIsOutputWhenGiven ==
    (calls >= 1 /\ result = Returned)
    => ExtractedTo(IF extract_args.output.given
                   THEN PurePosixPath(extract_args.output.value)
                   ELSE PurePosixPath(extract_args.name))

\* C8 amended: on success the destination is `output` whenever a non-empty
\* output is given, and the entry name when output is None or ''.
C8_DestIsOutputWhenNonEmpty ==
    (calls >= 1 /\ result = Returned)
    => ExtractedTo(IF extract_args.output.given
                        /\ extract_args.output.value # <<>>
                   THEN PurePosixPath(extract_args.output.value)
                   ELSE PurePosixPath(extract_args.name))

C8_Witness ==
    /\ calls >= 1 /\ result = Returned
    /\ extract_args.output = Output(<<"out", Slash, "x.txt">>)
    /\ extract_args.name = <<"files", Slash, "sub", Slash, "y.bin">>
    /\ extract_args.parent_mode = "0o700"
    /\ extract_args.mode = "0o755"
    /\ <<"out">> \notin DOMAIN pre_tree
    /\ tree[<<"out">>] = Dir("0o700")
    /\ tree[<<"out", "x.txt">>] = RegularFile("0o755", <<"y-bytes", "y-more">>)

====
